---- MODULE Spec2Model ----
(***************************************************************************)
(* tm, a git worktree manager (src/tm.ts).  One invocation of the CLI is   *)
(* one action.  The version-control tool, the remote metadata lookup and   *)
(* the hook executor are external: every call to them has an outcome the   *)
(* environment chooses, limited by what the tool itself refuses to do.     *)
(***************************************************************************)
EXTENDS Integers, Sequences, FiniteSets, TLC

(* ------------------------------ bounds -------------------------------- *)

\* longest remote-branch listing `git branch -r` answers with
MaxRemote == 2
\* longest hooks list of a post-hook.json
MaxHooks == 2
\* entries of a synthesized porcelain block
MaxEntries == 3

(* ------------------------------ paths --------------------------------- *)

\* A path is the sequence of its components below the directory the user
\* starts in; join(p, '..') of the top directory is the top directory.
TopDir == <<>>
RepoName == "repo"
BareName == ".bare"
SubName == "src"
NoPath == <<"?">>

Join(p, n) == Append(p, n)

Parent(p) == IF Len(p) = 0 THEN p ELSE SubSeq(p, 1, Len(p) - 1)

IsPrefix(p, q) == Len(p) <= Len(q) /\ SubSeq(q, 1, Len(p)) = p

\* barePath.replace('/.bare', ''): drops the FIRST '/.bare' of the path
RECURSIVE StripBare(_)
StripBare(p) ==
    IF p = <<>> THEN <<>>
    ELSE IF Head(p) = BareName THEN Tail(p)
    ELSE <<Head(p)>> \o StripBare(Tail(p))

(* ------------------------------ names --------------------------------- *)

\* names given on the command line to branch / add / rm / switch
CmdNames == {"main", "feat"}
\* branch names the remote may hold
RemoteNames == {"main", "develop", "release", "fix-HEAD"}
\* b.includes('HEAD')
IncludesHEAD(b) == b \in {"HEAD", "fix-HEAD"}
\* hook commands a post-hook.json may list
HookNames == <<"h1", "h2", "h3", "h4">>
HookName(i) == <<HookNames[i]>>

PreconditionErrors ==
    {"NotManagedRepository", "WorktreeExists", "WorktreeNotFound",
     "TargetExists", "BranchNotFound"}

(* ------------------------------ state --------------------------------- *)

VARIABLES
    cwd,        \* process.cwd() of the next invocation
    dirs,       \* directories that exist
    rootHook,   \* <root>/post-hook.json
    bareOk,     \* <root>/.bare holds a repository (the bare clone succeeded)
    local,      \* local branches of the bare store
    remote,     \* remote-tracking branches of the bare store
    reg,        \* `git worktree list --porcelain`, one record per entry
    dirty,      \* worktree paths with modified / untracked files
    last,       \* what the last invocation did and printed
    procs       \* the invocations that run side by side, each with its position

vars == <<cwd, dirs, rootHook, bareOk, local, remote, reg, dirty, last, procs>>

\* the repository as the version-control tool sees it
Git == [dirs |-> dirs, bareOk |-> bareOk, local |-> local, remote |-> remote,
        reg |-> reg, dirty |-> dirty]

SetGit(g) ==
    /\ dirs' = g.dirs
    /\ bareOk' = g.bareOk
    /\ local' = g.local
    /\ remote' = g.remote
    /\ reg' = g.reg
    /\ dirty' = g.dirty

\* a post-hook.json: absent, unparseable, parsed without a hooks array, or
\* parsed with one
NoFile == [kind |-> "none", hooks |-> <<>>]
BadJson == [kind |-> "bad", hooks |-> <<>>]
NoArray == [kind |-> "noarray", hooks |-> <<>>]
HookFile(hs) == [kind |-> "hooks", hooks |-> hs]

RECURSIVE SeqsUpTo(_, _)
SeqsUpTo(S, n) ==
    IF n = 0 THEN {<<>>}
    ELSE LET shorter == SeqsUpTo(S, n - 1)
         IN shorter \cup {Append(s, x) : s \in shorter, x \in S}

Range(s) == {s[i] : i \in DOMAIN s}

NoDup(s) == \A i, j \in DOMAIN s : i # j => s[i] # s[j]

\* the hooks lists: the first n hook commands, n up to MaxHooks
HookLists == {[i \in 1..n |-> HookName(i)] : n \in 0..MaxHooks}
HookContents == {NoFile, BadJson, NoArray} \cup {HookFile(hs) : hs \in HookLists}

\* one event of an invocation: a call to a collaborator, or a line printed
Ev(op, path, ok) == [op |-> op, path |-> path, ok |-> ok]

\* the paths of the events op of an output, in order
PathsOf(out, op, ok) ==
    LET sel == SelectSeq(out, LAMBDA e : e.op = op /\ e.ok = ok)
    IN [i \in 1..Len(sel) |-> sel[i].path]

Has(out, op, ok) == \E i \in DOMAIN out : out[i].op = op /\ out[i].ok = ok

\* what the invocation before a prune was, when it was a prune that listed
\* the worktrees and nothing changed since: the orphans it found and the
\* removals that failed
NoPrev == [ran |-> FALSE, found |-> <<>>, failed |-> <<>>]
PruneSummary(l) ==
    IF l.cmd = "prune" /\ Has(l.out, "worktree-list", TRUE)
    THEN [ran |-> TRUE, found |-> PathsOf(l.out, "log:orphan", TRUE),
          failed |-> PathsOf(l.out, "error:prune-failed", FALSE)]
    ELSE NoPrev

NoInput == [kind |-> "", urlOk |-> FALSE, gh |-> [ok |-> FALSE, branch |-> ""],
            cloneOk |-> FALSE, sym |-> [ok |-> FALSE, ref |-> <<>>],
            listing |-> [ok |-> FALSE, keys |-> <<>>]]

Idle == [cmd |-> "idle", name |-> "", del |-> FALSE, cwd |-> NoPath,
         bare |-> NoPath, exit |-> 0, err |-> "", main |-> "",
         in |-> NoInput, out |-> <<>>, prev |-> NoPrev, recs |-> <<>>,
         hooks |-> NoFile]

\* the shell is back at its prompt: the next invocation can start
AtPrompt == last.cmd = "idle"

\* one invocation at a time: nothing runs beside it
NoProcs == <<>>

Result(cmd, name, del, bare, exit, err, out) ==
    [cmd |-> cmd, name |-> name, del |-> del, cwd |-> cwd, bare |-> bare,
     exit |-> exit, err |-> err, main |-> "", in |-> NoInput, out |-> out,
     prev |-> IF cmd = "prune" THEN last.prev ELSE NoPrev, recs |-> <<>>,
     hooks |-> NoFile]

Init ==
    /\ cwd = TopDir
    /\ dirs \in {{TopDir}, {TopDir, Join(TopDir, BareName)}}
    /\ rootHook = NoFile
    /\ bareOk = FALSE
    /\ local = {}
    /\ remote = {}
    /\ reg = <<>>
    /\ dirty = {}
    /\ last = Idle
    /\ procs = NoProcs

(* --------------------------- the file system -------------------------- *)

directoryExists(ds, p) == p \in ds

(* ---------------------------- RepoLocator ----------------------------- *)

\* getBarePath walking up one level more
getBarePath_TwoUp(ds, cur) ==
    IF directoryExists(ds, Join(cur, BareName)) THEN Join(cur, BareName)
    ELSE IF directoryExists(ds, Join(Parent(cur), BareName))
         THEN Join(Parent(cur), BareName)
         ELSE IF directoryExists(ds, Join(Parent(Parent(cur)), BareName))
              THEN Join(Parent(Parent(cur)), BareName)
              ELSE NoPath

\* cwd first, then the parent, then nothing
getBarePath(ds, cur) ==
    IF directoryExists(ds, Join(cur, BareName)) THEN Join(cur, BareName)
    ELSE IF directoryExists(ds, Join(Parent(cur), BareName))
         THEN Join(Parent(cur), BareName)
         ELSE NoPath

\* branch and rm look the store up inline: '.bare' in the cwd, else the
\* parent's, else the command ends
inlineBarePath(ds, cur) ==
    IF ~directoryExists(ds, Join(cur, BareName))
    THEN IF directoryExists(ds, Join(Parent(cur), BareName))
         THEN Join(Parent(cur), BareName)
         ELSE NoPath
    ELSE Join(cur, BareName)

(* ----------------------- the version-control tool --------------------- *)

\* the one repository of the model lives in <TopDir>/repo/.bare; git run in
\* any other directory named .bare finds no repository
RepoPath == Join(TopDir, RepoName)
BarePath == Join(RepoPath, BareName)

IsRepo(g, bare) == bare = BarePath /\ g.bareOk

BareEntry == [worktree |-> BarePath, ref |-> <<>>, bare |-> TRUE]
Entry(path, name) ==
    [worktree |-> path, ref |-> <<"refs", "heads", name>>, bare |-> FALSE]

Registered(g, path) ==
    \E i \in DOMAIN g.reg : g.reg[i].worktree = path /\ ~g.reg[i].bare

CheckedOut(g, name) ==
    \E i \in DOMAIN g.reg : g.reg[i].ref = <<"refs", "heads", name>>

\* a checkout brings the tracked directory along
Checkout(path) == {path, Join(path, SubName)}

\* `git branch <name>` refuses a name that is taken
CanBranchCreate(g, bare, name) == IsRepo(g, bare) /\ name \notin g.local

BranchCreate(g, name) == [g EXCEPT !.local = @ \cup {name}]

\* `git worktree add <path> <name>` refuses a registered path, a path that
\* is in use, a branch checked out elsewhere and an unknown branch; a name
\* known only as a remote-tracking branch gets its local branch
CanWorktreeAdd(g, bare, path, name) ==
    /\ IsRepo(g, bare)
    /\ ~Registered(g, path)
    /\ path \notin g.dirs
    /\ ~CheckedOut(g, name)
    /\ name \in g.local \cup g.remote

WorktreeAdd(g, path, name) ==
    [g EXCEPT !.dirs = @ \cup Checkout(path),
              !.reg = Append(@, Entry(path, name)),
              !.local = @ \cup {name}]

\* `git worktree remove <path>` refuses an unregistered path and a worktree
\* with changes; a registration whose directory is gone is removed
CanWorktreeRemove(g, bare, path) ==
    /\ IsRepo(g, bare)
    /\ Registered(g, path)
    /\ path \notin g.dirty

WorktreeRemove(g, path) ==
    [g EXCEPT !.dirs = {d \in @ : ~IsPrefix(path, d)},
              !.reg = SelectSeq(@, LAMBDA e : e.worktree # path),
              !.dirty = @ \ {path}]

\* `git branch -D <name>` refuses a branch that is checked out
CanBranchDelete(g, bare, name) ==
    IsRepo(g, bare) /\ name \in g.local /\ ~CheckedOut(g, name)

BranchDelete(g, name) == [g EXCEPT !.local = @ \ {name}]

\* a call the tool refuses fails; any other call succeeds or fails
Outcomes(can) == IF can THEN {TRUE, FALSE} ELSE {FALSE}

(* ------------------------------ hooks --------------------------------- *)

\* RunHooks logging a failure and going on with the next hook
RECURSIVE RunHooks_KeepsGoing(_, _, _)
RunHooks_KeepsGoing(hs, codes, i) ==
    IF i > Len(hs) THEN <<>>
    ELSE IF codes[i] # 0
         THEN <<Ev("hook", hs[i], FALSE), Ev("error:post-hook", hs[i], FALSE)>>
              \o RunHooks_KeepsGoing(hs, codes, i + 1)
         ELSE <<Ev("hook", hs[i], TRUE)>> \o RunHooks_KeepsGoing(hs, codes, i + 1)

\* runPostHooks: the hooks of <repoPath>/post-hook.json, in order, up to and
\* including the first that exits non-zero; every error is caught and logged
RECURSIVE RunHooks(_, _, _)
RunHooks(hs, codes, i) ==
    IF i > Len(hs) THEN <<>>
    ELSE IF codes[i] # 0
         THEN <<Ev("hook", hs[i], FALSE), Ev("error:post-hook", hs[i], FALSE)>>
         ELSE <<Ev("hook", hs[i], TRUE)>> \o RunHooks(hs, codes, i + 1)

runPostHooks(file, codes) ==
    IF file.kind = "none" THEN <<>>
    ELSE IF file.kind = "bad" THEN <<Ev("error:post-hook", <<>>, FALSE)>>
    ELSE IF file.kind = "noarray" THEN <<>>
    ELSE RunHooks(file.hooks, codes, 1)

\* one exit code per hook of the list
ExitCodes(hs) == [1..Len(hs) -> {0, 1}]
NoCodes == <<>>

(* ---------------------------- environment ----------------------------- *)

\* the hooks the user writes into <root>/post-hook.json
UserHooks == <<HookName(1)>>

\* where the user runs the tool: above the repository, at its root, in the
\* worktree main and in a directory of that worktree
Places ==
    {TopDir, Join(TopDir, RepoName), <<RepoName, "main">>, <<RepoName, "main", SubName>>}

\* the user's shell changes directory
Chdir ==
    /\ AtPrompt
    /\ \E d \in dirs \cap Places : d # cwd /\ cwd' = d
    /\ last' = Idle
    /\ UNCHANGED <<dirs, rootHook, bareOk, local, remote, reg, dirty, procs>>

\* a worktree directory is deleted outside the tool: the registration stays
ExternalDelete ==
    /\ AtPrompt
    /\ \E i \in DOMAIN reg :
          /\ ~reg[i].bare
          /\ reg[i].worktree \in dirs
          /\ ~IsPrefix(reg[i].worktree, cwd)
          /\ dirs' = {d \in dirs : ~IsPrefix(reg[i].worktree, d)}
          /\ dirty' = dirty \ {reg[i].worktree}
    /\ last' = Idle
    /\ UNCHANGED <<cwd, rootHook, bareOk, local, remote, reg, procs>>

\* the user edits or reverts files of a worktree
EditWorktree ==
    /\ AtPrompt
    /\ \E i \in DOMAIN reg :
          /\ ~reg[i].bare
          /\ reg[i].worktree \in dirs
          /\ dirty' = IF reg[i].worktree \in dirty
                      THEN dirty \ {reg[i].worktree}
                      ELSE dirty \cup {reg[i].worktree}
    /\ last' = Idle
    /\ UNCHANGED <<cwd, dirs, rootHook, bareOk, local, remote, reg, procs>>

\* the user edits <root>/post-hook.json
EditHooks ==
    /\ AtPrompt
    /\ rootHook # NoFile
    /\ rootHook' = IF rootHook = HookFile(UserHooks) THEN HookFile(<<>>)
                   ELSE HookFile(UserHooks)
    /\ last' = Idle
    /\ UNCHANGED <<cwd, dirs, bareOk, local, remote, reg, dirty, procs>>

\* the invocation has exited and the shell prompts again; a prune that
\* listed the worktrees is remembered until the next invocation or change
Prompt ==
    /\ ~AtPrompt
    /\ last' = [Idle EXCEPT !.prev = PruneSummary(last)]
    /\ UNCHANGED <<cwd, dirs, rootHook, bareOk, local, remote, reg, dirty, procs>>

(* ------------------------------ switch -------------------------------- *)

\* switchWorktree without the existence check
switchWorktree_Unchecked(name) ==
    /\ AtPrompt
    /\ cwd \in dirs
    /\ LET bare == getBarePath(dirs, cwd)
           branchPath == Join(StripBare(bare), name)
       IN IF bare = NoPath
          THEN last' = Result("switch", name, FALSE, bare, 1, "NotManagedRepository",
                              <<Ev("error:not-managed", <<>>, FALSE)>>)
          ELSE last' = Result("switch", name, FALSE, bare, 0, "",
                              <<Ev("print", branchPath, TRUE)>>)
    /\ UNCHANGED <<cwd, dirs, rootHook, bareOk, local, remote, reg, dirty, procs>>

switchWorktree(name) ==
    /\ AtPrompt
    /\ cwd \in dirs
    /\ LET bare == getBarePath(dirs, cwd)
           branchPath == Join(StripBare(bare), name)
       IN IF bare = NoPath
          THEN last' = Result("switch", name, FALSE, bare, 1, "NotManagedRepository",
                              <<Ev("error:not-managed", <<>>, FALSE)>>)
          ELSE IF ~directoryExists(dirs, branchPath)
          THEN last' = Result("switch", name, FALSE, bare, 1, "WorktreeNotFound",
                              <<Ev("error:not-found", branchPath, FALSE)>>)
          ELSE last' = Result("switch", name, FALSE, bare, 0, "",
                              <<Ev("print", branchPath, TRUE)>>)
    /\ UNCHANGED <<cwd, dirs, rootHook, bareOk, local, remote, reg, dirty, procs>>

Switch == \E name \in CmdNames : switchWorktree(name)

NotManaged(cmd, name, del) ==
    /\ last' = Result(cmd, name, del, NoPath, 1, "NotManagedRepository",
                      <<Ev("error:not-managed", <<>>, FALSE)>>)
    /\ UNCHANGED <<cwd, dirs, rootHook, bareOk, local, remote, reg, dirty, procs>>

\* Refused with add's existence check placed after the tracking branch is made
Refused_Late(cmd, name, del, bare, err, path) ==
    /\ last' = Result(cmd, name, del, bare, 1, err, <<Ev("error:" \o err, path, FALSE)>>)
    /\ local' = IF err = "BranchNotFound" THEN local \cup {name} ELSE local
    /\ UNCHANGED <<cwd, dirs, rootHook, bareOk, remote, reg, dirty, procs>>

\* a precondition fails: the message, exit 1
Refused(cmd, name, del, bare, err, path) ==
    /\ last' = Result(cmd, name, del, bare, 1, err, <<Ev("error:" \o err, path, FALSE)>>)
    /\ UNCHANGED <<cwd, dirs, rootHook, bareOk, local, remote, reg, dirty, procs>>

\* the command ends in its catch block with exit 1, or at its end with exit 0
Ended(cmd, name, del, bare, g, exit, out) ==
    /\ last' = Result(cmd, name, del, bare, exit,
                      IF exit = 0 THEN "" ELSE "ExternalToolError", out)
    /\ SetGit(g)
    /\ UNCHANGED <<cwd, rootHook, procs>>

\* Created with runPostHooks letting a hook's failure reach the caller's catch
Created_HookFatal(cmd, name, bare, g, out) ==
    \E file \in HookContents :
        \E codes \in ExitCodes(file.hooks) :
            /\ last' = [Result(cmd, name, FALSE, bare,
                               IF Has(runPostHooks(file, codes), "error:post-hook", FALSE)
                               THEN 1 ELSE 0,
                               "", out \o runPostHooks(file, codes))
                        EXCEPT !.hooks = file]
            /\ SetGit(g)
            /\ UNCHANGED <<cwd, rootHook, procs>>

\* the worktree is created: runPostHooks(branchPath) reads the post-hook.json
\* of the new checkout, and the command ends with exit 0 whatever the hooks do
Created(cmd, name, bare, g, out) ==
    \E file \in HookContents :
        \E codes \in ExitCodes(file.hooks) :
            /\ last' = [Result(cmd, name, FALSE, bare, 0, "",
                               out \o runPostHooks(file, codes))
                        EXCEPT !.hooks = file]
            /\ SetGit(g)
            /\ UNCHANGED <<cwd, rootHook, procs>>

(* ------------------------------ branch -------------------------------- *)

\* branch running the hooks although the worktree was not created
branch_HooksAnyway(name) ==
    /\ AtPrompt
    /\ cwd \in dirs
    /\  LET bare == inlineBarePath(dirs, cwd)
            branchPath == Join(StripBare(bare), name)
            g1 == BranchCreate(Git, name)
            g2 == WorktreeAdd(g1, branchPath, name)
        IN IF bare = NoPath THEN NotManaged("branch", name, FALSE)
           ELSE IF directoryExists(dirs, branchPath)
           THEN Refused("branch", name, FALSE, bare, "WorktreeExists", branchPath)
           ELSE \E okBranch \in Outcomes(CanBranchCreate(Git, bare, name)) :
           IF ~okBranch
           THEN Ended("branch", name, FALSE, bare, Git, 1,
                      <<Ev("branch-create", <<name>>, FALSE),
                        Ev("error:branch-failed", <<name>>, FALSE)>>)
           ELSE \E okAdd \in Outcomes(CanWorktreeAdd(g1, bare, branchPath, name)) :
           IF ~okAdd
           THEN Created("branch", name, bare, g1,
                        <<Ev("branch-create", <<name>>, TRUE),
                          Ev("worktree-add", branchPath, FALSE),
                          Ev("error:branch-failed", <<name>>, FALSE)>>)
           ELSE Created("branch", name, bare, g2,
                        <<Ev("branch-create", <<name>>, TRUE),
                          Ev("worktree-add", branchPath, TRUE),
                          Ev("log:created", branchPath, TRUE)>>)

branch(name) ==
    /\ AtPrompt
    /\ cwd \in dirs
    /\  LET bare == inlineBarePath(dirs, cwd)
            branchPath == Join(StripBare(bare), name)
            g1 == BranchCreate(Git, name)
            g2 == WorktreeAdd(g1, branchPath, name)
        IN IF bare = NoPath THEN NotManaged("branch", name, FALSE)
           ELSE IF directoryExists(dirs, branchPath)
           THEN Refused("branch", name, FALSE, bare, "WorktreeExists", branchPath)
           ELSE \E okBranch \in Outcomes(CanBranchCreate(Git, bare, name)) :
           IF ~okBranch
           THEN Ended("branch", name, FALSE, bare, Git, 1,
                      <<Ev("branch-create", <<name>>, FALSE),
                        Ev("error:branch-failed", <<name>>, FALSE)>>)
           ELSE \E okAdd \in Outcomes(CanWorktreeAdd(g1, bare, branchPath, name)) :
           IF ~okAdd
           THEN Ended("branch", name, FALSE, bare, g1, 1,
                      <<Ev("branch-create", <<name>>, TRUE),
                        Ev("worktree-add", branchPath, FALSE),
                        Ev("error:branch-failed", <<name>>, FALSE)>>)
           ELSE Created("branch", name, bare, g2,
                        <<Ev("branch-create", <<name>>, TRUE),
                          Ev("worktree-add", branchPath, TRUE),
                          Ev("log:created", branchPath, TRUE)>>)

Branch == \E name \in CmdNames : branch(name)

(* -------------------------------- rm ---------------------------------- *)

\* removeGit undoing the worktree removal when the branch deletion fails
removeGit_Rollback(g, branchPath, name, deleteBranch, okRemove, okDelete) ==
    IF ~okRemove THEN g
    ELSE IF deleteBranch /\ okDelete
         THEN BranchDelete(WorktreeRemove(g, branchPath), name)
         ELSE IF deleteBranch THEN g
         ELSE WorktreeRemove(g, branchPath)

\* removeGit deleting the branch before, and whatever becomes of, the
\* worktree removal
removeGit_DeletesFirst(g, branchPath, name, deleteBranch, okRemove, okDelete) ==
    IF ~okRemove THEN (IF deleteBranch THEN BranchDelete(g, name) ELSE g)
    ELSE IF deleteBranch /\ okDelete
         THEN BranchDelete(WorktreeRemove(g, branchPath), name)
         ELSE WorktreeRemove(g, branchPath)

\* the repository after rm: the worktree removal, then the branch deletion;
\* nothing is undone when the second call fails
removeGit(g, branchPath, name, deleteBranch, okRemove, okDelete) ==
    IF ~okRemove THEN g
    ELSE IF deleteBranch /\ okDelete
         THEN BranchDelete(WorktreeRemove(g, branchPath), name)
         ELSE WorktreeRemove(g, branchPath)

\* what rm calls and prints
removeOut(branchPath, name, deleteBranch, okRemove, okDelete) ==
    IF ~okRemove
    THEN <<Ev("worktree-remove", branchPath, FALSE),
           Ev("error:remove-failed", branchPath, FALSE)>>
    ELSE <<Ev("worktree-remove", branchPath, TRUE),
           Ev("log:removed-worktree", branchPath, TRUE)>> \o
         (IF ~deleteBranch THEN <<>>
          ELSE IF ~okDelete
          THEN <<Ev("branch-delete", <<name>>, FALSE),
                 Ev("error:remove-failed", <<name>>, FALSE)>>
          ELSE <<Ev("branch-delete", <<name>>, TRUE),
                 Ev("log:deleted-branch", <<name>>, TRUE)>>)

\* remove without the existence test of the worktree path
remove_NoExistenceTest(name, deleteBranch) ==
    /\ AtPrompt
    /\ cwd \in dirs
    /\  LET bare == inlineBarePath(dirs, cwd)
            branchPath == Join(StripBare(bare), name)
            g1 == WorktreeRemove(Git, branchPath)
        IN IF bare = NoPath THEN NotManaged("rm", name, deleteBranch)
           ELSE \E okRemove \in Outcomes(CanWorktreeRemove(Git, bare, branchPath)) :
                \E okDelete \in IF okRemove /\ deleteBranch
                                THEN Outcomes(CanBranchDelete(g1, bare, name))
                                ELSE {TRUE} :
                    Ended("rm", name, deleteBranch, bare,
                          removeGit(Git, branchPath, name, deleteBranch, okRemove, okDelete),
                          IF okRemove /\ okDelete THEN 0 ELSE 1,
                          removeOut(branchPath, name, deleteBranch, okRemove, okDelete))

remove(name, deleteBranch) ==
    /\ AtPrompt
    /\ cwd \in dirs
    /\  LET bare == inlineBarePath(dirs, cwd)
            branchPath == Join(StripBare(bare), name)
            g1 == WorktreeRemove(Git, branchPath)
        IN IF bare = NoPath THEN NotManaged("rm", name, deleteBranch)
           ELSE IF ~directoryExists(dirs, branchPath)
           THEN Refused("rm", name, deleteBranch, bare, "WorktreeNotFound", branchPath)
           ELSE \E okRemove \in Outcomes(CanWorktreeRemove(Git, bare, branchPath)) :
                \E okDelete \in IF okRemove /\ deleteBranch
                                THEN Outcomes(CanBranchDelete(g1, bare, name))
                                ELSE {TRUE} :
                    Ended("rm", name, deleteBranch, bare,
                          removeGit(Git, branchPath, name, deleteBranch, okRemove, okDelete),
                          IF okRemove /\ okDelete THEN 0 ELSE 1,
                          removeOut(branchPath, name, deleteBranch, okRemove, okDelete))

Remove == \E name \in CmdNames, deleteBranch \in BOOLEAN : remove(name, deleteBranch)

(* -------------------------------- add --------------------------------- *)

\* addTracking going straight to the worktree
addTracking_Skipped(g, name) == [g |-> g, out |-> <<>>]

\* `branch --track <name> origin/<name>` when the branch is not a local one
addTracking(g, name) ==
    IF name \in g.local THEN [g |-> g, out |-> <<>>]
    ELSE [g |-> BranchCreate(g, name), out |-> <<Ev("branch-track", <<name>>, TRUE)>>]

addWorktree(name) ==
    /\ AtPrompt
    /\ cwd \in dirs
    /\  LET bare == getBarePath(dirs, cwd)
            branchPath == Join(StripBare(bare), name)
            branchExists == name \in local \/ name \in remote
            hasLocalBranch == name \in local
            g1 == addTracking(Git, name).g
            track == addTracking(Git, name).out
            g2 == WorktreeAdd(g1, branchPath, name)
        IN IF bare = NoPath THEN NotManaged("add", name, FALSE)
           ELSE IF directoryExists(dirs, branchPath)
           THEN Refused("add", name, FALSE, bare, "WorktreeExists", branchPath)
           ELSE \E okAll \in Outcomes(IsRepo(Git, bare)) :
           IF ~okAll
           THEN Ended("add", name, FALSE, bare, Git, 1,
                      <<Ev("branch-list-all", <<>>, FALSE),
                        Ev("error:add-failed", <<name>>, FALSE)>>)
           ELSE IF ~branchExists
           THEN Refused("add", name, FALSE, bare, "BranchNotFound", <<name>>)
           ELSE \E okLocal \in BOOLEAN :
           IF ~okLocal
           THEN Ended("add", name, FALSE, bare, Git, 1,
                      <<Ev("branch-list-all", <<>>, TRUE),
                        Ev("branch-list-local", <<>>, FALSE),
                        Ev("error:add-failed", <<name>>, FALSE)>>)
           ELSE \E okTrack \in IF hasLocalBranch THEN {TRUE} ELSE BOOLEAN :
           IF ~okTrack
           THEN Ended("add", name, FALSE, bare, Git, 1,
                      <<Ev("branch-list-all", <<>>, TRUE),
                        Ev("branch-list-local", <<>>, TRUE),
                        Ev("branch-track", <<name>>, FALSE),
                        Ev("error:add-failed", <<name>>, FALSE)>>)
           ELSE \E okAdd \in Outcomes(CanWorktreeAdd(g1, bare, branchPath, name)) :
           IF ~okAdd
           THEN Ended("add", name, FALSE, bare, g1, 1,
                      <<Ev("branch-list-all", <<>>, TRUE),
                        Ev("branch-list-local", <<>>, TRUE)>> \o track \o
                      <<Ev("worktree-add", branchPath, FALSE),
                        Ev("error:add-failed", <<name>>, FALSE)>>)
           ELSE Created("add", name, bare, g2,
                        <<Ev("branch-list-all", <<>>, TRUE),
                          Ev("branch-list-local", <<>>, TRUE)>> \o track \o
                        <<Ev("worktree-add", branchPath, TRUE),
                          Ev("log:created", branchPath, TRUE)>>)

Add == \E name \in CmdNames : addWorktree(name)

(* -------------------------- PorcelainParser --------------------------- *)

\* branchLine.replace('branch ', '').replace('refs/heads/', '')
branchOf(e, sentinel) ==
    IF e.ref = <<>> THEN sentinel
    ELSE IF Len(e.ref) = 3 /\ SubSeq(e.ref, 1, 2) = <<"refs", "heads">>
         THEN e.ref[3]
         ELSE "refs"

\* parseNonBare without the test of the bare line
parseNonBare_KeepsBare(entries) ==
    LET kept == SelectSeq(entries, LAMBDA e : e.worktree # NoPath)
    IN [i \in 1..Len(kept) |->
            [path |-> kept[i].worktree, branch |-> branchOf(kept[i], "")]]

\* prune and sync keep the entries with a worktree line and no bare line
parseNonBare(entries) ==
    LET kept == SelectSeq(entries, LAMBDA e : e.worktree # NoPath /\ ~e.bare)
    IN [i \in 1..Len(kept) |->
            [path |-> kept[i].worktree, branch |-> branchOf(kept[i], "")]]

\* list keeps every entry with a worktree line, the bare one flagged
parseAll(entries, ds) ==
    LET kept == SelectSeq(entries, LAMBDA e : e.worktree # NoPath)
    IN [i \in 1..Len(kept) |->
            [path |-> kept[i].worktree, branch |-> branchOf(kept[i], "(detached)"),
             isBare |-> kept[i].bare, exists |-> directoryExists(ds, kept[i].worktree)]]

\* the records list's loop acts on: `if (wt.isBare) continue`
listRecords(entries, ds) == SelectSeq(parseAll(entries, ds), LAMBDA w : ~w.isBare)

\* the records each command's loop gets from a porcelain block
ParseCmds == {"list", "prune", "sync"}
parsedBy(cmd, entries, ds) ==
    IF cmd = "list"
    THEN [i \in 1..Len(listRecords(entries, ds)) |->
              [path |-> listRecords(entries, ds)[i].path,
               branch |-> listRecords(entries, ds)[i].branch]]
    ELSE parseNonBare(entries)

\* synthesized porcelain blocks: entries with or without a worktree line, a
\* branch line and a bare line
ParsePaths == {NoPath, <<RepoName, "foo">>, <<RepoName, "bar">>}
ParseRefs == {<<>>, <<"refs", "heads", "foo">>}
ParseEntries ==
    {[worktree |-> w, ref |-> r, bare |-> b] :
        w \in ParsePaths, r \in ParseRefs, b \in BOOLEAN}
ParseBlocks == SeqsUpTo(ParseEntries, MaxEntries)

InitParse ==
    /\ cwd = TopDir
    /\ dirs = {TopDir}
    /\ rootHook = NoFile
    /\ bareOk = FALSE
    /\ local = {}
    /\ remote = {}
    /\ reg \in ParseBlocks
    /\ dirty = {}
    /\ last = Idle
    /\ procs = NoProcs

ParsePorcelain ==
    /\ last.cmd = "idle"
    /\ \E cmd \in ParseCmds :
          last' = [Idle EXCEPT !.cmd = "parse", !.name = cmd,
                               !.recs = parsedBy(cmd, reg, dirs)]
    /\ UNCHANGED <<cwd, dirs, rootHook, bareOk, local, remote, reg, dirty, procs>>

(* ------------------------------- prune -------------------------------- *)

\* PruneLoop with the try / catch around the loop: the first failure ends it
RECURSIVE PruneLoop_StopsAtFailure(_, _, _, _, _)
PruneLoop_StopsAtFailure(g, bare, ws, okSet, i) ==
    IF i > Len(ws) THEN [g |-> g, out |-> <<>>]
    ELSE LET ok == ws[i].path \in okSet /\ CanWorktreeRemove(g, bare, ws[i].path)
             rest == PruneLoop_StopsAtFailure(WorktreeRemove(g, ws[i].path), bare, ws,
                                              okSet, i + 1)
         IN IF ok
            THEN [g |-> rest.g,
                  out |-> <<Ev("worktree-remove", ws[i].path, TRUE),
                            Ev("log:pruned", ws[i].path, TRUE)>> \o rest.out]
            ELSE [g |-> g,
                  out |-> <<Ev("worktree-remove", ws[i].path, FALSE),
                            Ev("error:prune-failed", ws[i].path, FALSE)>>]

\* PruneLoop printing the success line whatever the removal did
RECURSIVE PruneLoop_AlwaysPruned(_, _, _, _, _)
PruneLoop_AlwaysPruned(g, bare, ws, okSet, i) ==
    IF i > Len(ws) THEN [g |-> g, out |-> <<>>]
    ELSE LET ok == ws[i].path \in okSet /\ CanWorktreeRemove(g, bare, ws[i].path)
             g1 == IF ok THEN WorktreeRemove(g, ws[i].path) ELSE g
             rest == PruneLoop_AlwaysPruned(g1, bare, ws, okSet, i + 1)
         IN [g |-> rest.g,
             out |-> <<Ev("worktree-remove", ws[i].path, ok),
                       Ev("log:pruned", ws[i].path, TRUE)>> \o rest.out]

\* one removal attempt per orphan, each in its own try / catch
RECURSIVE PruneLoop(_, _, _, _, _)
PruneLoop(g, bare, ws, okSet, i) ==
    IF i > Len(ws) THEN [g |-> g, out |-> <<>>]
    ELSE LET ok == ws[i].path \in okSet /\ CanWorktreeRemove(g, bare, ws[i].path)
             g1 == IF ok THEN WorktreeRemove(g, ws[i].path) ELSE g
             rest == PruneLoop(g1, bare, ws, okSet, i + 1)
         IN [g |-> rest.g,
             out |-> <<Ev("worktree-remove", ws[i].path, ok),
                       Ev(IF ok THEN "log:pruned" ELSE "error:prune-failed",
                          ws[i].path, ok)>> \o rest.out]

\* orphanedWorktrees without the existence test
orphanedWorktrees_NoExistenceTest(g) == parseNonBare(g.reg)

\* the non-bare records whose directory is gone
orphanedWorktrees(g) ==
    SelectSeq(parseNonBare(g.reg), LAMBDA w : ~directoryExists(g.dirs, w.path))

pruneWorktrees ==
    /\ AtPrompt
    /\ cwd \in dirs
    /\ LET bare == getBarePath(dirs, cwd)
           orphans == orphanedWorktrees(Git)
           found == [i \in 1..Len(orphans) |-> Ev("log:orphan", orphans[i].path, TRUE)]
       IN IF bare = NoPath THEN NotManaged("prune", "", FALSE)
          ELSE \E okList \in Outcomes(IsRepo(Git, bare)) :
                 IF ~okList
                 THEN Ended("prune", "", FALSE, bare, Git, 1,
                            <<Ev("worktree-list", <<>>, FALSE),
                              Ev("error:prune-failed-all", <<>>, FALSE)>>)
                 ELSE IF Len(orphans) = 0
                 THEN Ended("prune", "", FALSE, bare, Git, 0,
                            <<Ev("worktree-list", <<>>, TRUE),
                              Ev("log:no-orphans", <<>>, TRUE)>>)
                 ELSE \E okSet \in SUBSET {orphans[i].path : i \in 1..Len(orphans)} :
                      LET r == PruneLoop(Git, bare, orphans, okSet, 1)
                      IN Ended("prune", "", FALSE, bare, r.g, 0,
                               <<Ev("worktree-list", <<>>, TRUE)>> \o found \o r.out)

(* -------------------------------- sync -------------------------------- *)

SyncChoices == {"status-fails", "pull-fails", "pull-ok"}

\* syncOne without the check for uncommitted changes
syncOne_PullsDirty(g, w, choice) ==
    IF choice = "status-fails"
    THEN <<Ev("status", w.path, FALSE), Ev("report:failed", w.path, FALSE)>>
    ELSE IF choice = "pull-fails"
    THEN <<Ev("status", w.path, TRUE), Ev("pull", w.path, FALSE),
           Ev("report:failed", w.path, FALSE)>>
    ELSE <<Ev("status", w.path, TRUE), Ev("pull", w.path, TRUE),
           Ev("report:updated", w.path, TRUE)>>

\* the body of the inner try of the loop, for one worktree
syncOne(g, w, choice) ==
    IF choice = "status-fails"
    THEN <<Ev("status", w.path, FALSE), Ev("report:failed", w.path, FALSE)>>
    ELSE IF w.path \in g.dirty
    THEN <<Ev("status", w.path, TRUE), Ev("report:skipped", w.path, TRUE)>>
    ELSE IF choice = "pull-fails"
    THEN <<Ev("status", w.path, TRUE), Ev("pull", w.path, FALSE),
           Ev("report:failed", w.path, FALSE)>>
    ELSE <<Ev("status", w.path, TRUE), Ev("pull", w.path, TRUE),
           Ev("report:updated", w.path, TRUE)>>

\* SyncLoop fetching again for every worktree
RECURSIVE SyncLoop_FetchesEach(_, _, _, _)
SyncLoop_FetchesEach(g, ws, choice, i) ==
    IF i > Len(ws) THEN [out |-> <<>>, thrown |-> FALSE]
    ELSE IF ~directoryExists(g.dirs, ws[i].path)
    THEN [out |-> <<Ev("simple-git", ws[i].path, FALSE)>>, thrown |-> TRUE]
    ELSE LET rest == SyncLoop_FetchesEach(g, ws, choice, i + 1)
         IN [out |-> <<Ev("fetch", <<>>, TRUE)>> \o syncOne(g, ws[i], choice[i])
                     \o rest.out,
             thrown |-> rest.thrown]

\* simpleGit({ baseDir }) is built outside the inner try and throws when the
\* directory does not exist: the outer catch then ends the command
RECURSIVE SyncLoop(_, _, _, _)
SyncLoop(g, ws, choice, i) ==
    IF i > Len(ws) THEN [out |-> <<>>, thrown |-> FALSE]
    ELSE IF ~directoryExists(g.dirs, ws[i].path)
    THEN [out |-> <<Ev("simple-git", ws[i].path, FALSE)>>, thrown |-> TRUE]
    ELSE LET rest == SyncLoop(g, ws, choice, i + 1)
         IN [out |-> syncOne(g, ws[i], choice[i]) \o rest.out,
             thrown |-> rest.thrown]

\* the answers the loop asks for: none once simpleGit has thrown, and no
\* pull for a worktree with changes
SyncRuns(g, ws) ==
    {c \in [1..Len(ws) -> SyncChoices] :
        \A i \in 1..Len(ws) :
            /\ (\E j \in 1..i : ~directoryExists(g.dirs, ws[j].path)) => c[i] = "pull-ok"
            /\ ws[i].path \in g.dirty => c[i] # "pull-fails"}

syncWorktrees ==
    /\ AtPrompt
    /\ cwd \in dirs
    /\ LET bare == getBarePath(dirs, cwd)
           worktrees == parseNonBare(reg)
       IN IF bare = NoPath THEN NotManaged("sync", "", FALSE)
          ELSE \E okFetch \in Outcomes(IsRepo(Git, bare)) :
                 IF ~okFetch
                 THEN Ended("sync", "", FALSE, bare, Git, 1,
                            <<Ev("fetch", <<>>, FALSE),
                              Ev("error:sync-failed", <<>>, FALSE)>>)
                 ELSE \E okList \in BOOLEAN :
                 IF ~okList
                 THEN Ended("sync", "", FALSE, bare, Git, 1,
                            <<Ev("fetch", <<>>, TRUE),
                              Ev("worktree-list", <<>>, FALSE),
                              Ev("error:sync-failed", <<>>, FALSE)>>)
                 ELSE \E choice \in SyncRuns(Git, worktrees) :
                      LET r == SyncLoop(Git, worktrees, choice, 1)
                      IN IF r.thrown
                         THEN Ended("sync", "", FALSE, bare, Git, 1,
                                    <<Ev("fetch", <<>>, TRUE),
                                      Ev("worktree-list", <<>>, TRUE)>> \o r.out \o
                                    <<Ev("error:sync-failed", <<>>, FALSE)>>)
                         ELSE Ended("sync", "", FALSE, bare, Git, 0,
                                    <<Ev("fetch", <<>>, TRUE),
                                      Ev("worktree-list", <<>>, TRUE)>> \o r.out \o
                                    <<Ev("log:sync-complete", <<>>, TRUE)>>)

(* -------------------------------- list -------------------------------- *)

\* what the queries of one worktree answer: all succeed and there is nothing
\* to show, the status query fails, the branch query fails, or the worktree
\* is behind its upstream
ListChoices == {"ok", "status-fails", "branch-fails", "behind"}

\* the two queries of one worktree, each in its own try / catch, then the
\* entry: the branch with its markers, and the path
listOne(g, w, choice) ==
    <<Ev("status", w.path, choice # "status-fails")>>
    \o (IF choice # "status-fails" /\ w.path \in g.dirty
        THEN <<Ev("show:modified", w.path, TRUE)>> ELSE <<>>)
    \o <<Ev("branch-v", w.path, choice # "branch-fails")>>
    \o (IF choice = "behind" THEN <<Ev("show:sync", w.path, TRUE)>> ELSE <<>>)
    \o (IF ~w.exists THEN <<Ev("show:orphan", w.path, TRUE)>> ELSE <<>>)
    \o <<Ev("print:entry", w.path, TRUE)>>

\* simpleGit({ baseDir }) is built outside the two try blocks and throws when
\* the directory does not exist: the outer catch then ends the command
RECURSIVE ListLoop(_, _, _, _)
ListLoop(g, ws, choice, i) ==
    IF i > Len(ws) THEN [out |-> <<>>, thrown |-> FALSE]
    ELSE IF ~directoryExists(g.dirs, ws[i].path)
    THEN [out |-> <<Ev("simple-git", ws[i].path, FALSE)>>, thrown |-> TRUE]
    ELSE LET rest == ListLoop(g, ws, choice, i + 1)
         IN [out |-> listOne(g, ws[i], choice[i]) \o rest.out,
             thrown |-> rest.thrown]

\* the answers the loop asks for: none once simpleGit has thrown
ListRuns(g, ws) ==
    {c \in [1..Len(ws) -> ListChoices] :
        \A i \in 1..Len(ws) :
            (\E j \in 1..i : ~directoryExists(g.dirs, ws[j].path)) => c[i] = "ok"}

listWorktrees ==
    /\ AtPrompt
    /\ cwd \in dirs
    /\ LET bare == getBarePath(dirs, cwd)
           worktrees == listRecords(reg, dirs)
       IN IF bare = NoPath THEN NotManaged("list", "", FALSE)
          ELSE \E okList \in Outcomes(IsRepo(Git, bare)) :
                 IF ~okList
                 THEN Ended("list", "", FALSE, bare, Git, 1,
                            <<Ev("worktree-list", <<>>, FALSE),
                              Ev("error:list-failed", <<>>, FALSE)>>)
                 ELSE \E choice \in ListRuns(Git, worktrees) :
                      LET r == ListLoop(Git, worktrees, choice, 1)
                      IN IF r.thrown
                         THEN Ended("list", "", FALSE, bare, Git, 1,
                                    <<Ev("worktree-list", <<>>, TRUE)>> \o r.out \o
                                    <<Ev("error:list-failed", <<>>, FALSE)>>)
                         ELSE Ended("list", "", FALSE, bare, Git, 0,
                                    <<Ev("worktree-list", <<>>, TRUE)>> \o r.out)

(* --------------------------- BranchResolver --------------------------- *)

NoBranch == "?"
NoRef == <<>>

OriginRef(name) == <<"refs", "remotes", "origin", name>>
OriginKey(name) == <<"origin", name>>

\* result.replace('refs/remotes/origin/', '').trim()
stripRemoteRef(ref) ==
    IF ref = NoRef THEN ""
    ELSE IF Len(ref) = 4 /\ SubSeq(ref, 1, 3) = <<"refs", "remotes", "origin">>
         THEN ref[4]
         ELSE "refs"

\* b.replace('origin/', '').trim()
stripOrigin(key) == IF Head(key) = "origin" THEN key[2] ELSE Head(key)

commonDefaults == <<"main", "master", "develop", "dev">>

\* the first of commonDefaults among the remote branches, else the first
\* remote branch
RECURSIVE pickBranch(_, _)
pickBranch(remoteBranches, i) ==
    IF i > Len(commonDefaults) THEN remoteBranches[1]
    ELSE IF commonDefaults[i] \in Range(remoteBranches) THEN commonDefaults[i]
    ELSE pickBranch(remoteBranches, i + 1)

\* Object.keys(remote).map(...).filter(b => b && !b.includes('HEAD'))
remoteBranchesOf(keys) ==
    SelectSeq([i \in 1..Len(keys) |-> stripOrigin(keys[i])],
              LAMBDA b : b # "" /\ ~IncludesHEAD(b))

\* sym: the answer of `git symbolic-ref refs/remotes/origin/HEAD`;
\* listing: the answer of `git branch -r`
getMainBranch(sym, listing) ==
    IF sym.ok /\ sym.ref # NoRef /\ stripRemoteRef(sym.ref) # ""
    THEN stripRemoteRef(sym.ref)
    ELSE IF ~listing.ok THEN NoBranch
    ELSE IF Len(remoteBranchesOf(listing.keys)) = 0 THEN NoBranch
    ELSE pickBranch(remoteBranchesOf(listing.keys), 1)

\* data.default_branch || null
getDefaultBranchFromGitHub(gh) == IF gh.ok /\ gh.branch # "" THEN gh.branch ELSE ""

\* resolveMainBranch giving up when GitHub names no default branch
resolveMainBranch_LookupFatal(kind, gh, sym, listing) ==
    IF kind = "short"
    THEN IF getDefaultBranchFromGitHub(gh) # "" THEN getDefaultBranchFromGitHub(gh)
         ELSE NoBranch
    ELSE getMainBranch(sym, listing)

\* clone asks GitHub only for owner/repo shorthand
resolveMainBranch(kind, gh, sym, listing) ==
    IF kind = "short" /\ getDefaultBranchFromGitHub(gh) # ""
    THEN getDefaultBranchFromGitHub(gh)
    ELSE getMainBranch(sym, listing)

Listings == {s \in SeqsUpTo(RemoteNames, MaxRemote) : NoDup(s)}
SymAnswers ==
    {[ok |-> FALSE, ref |-> NoRef], [ok |-> TRUE, ref |-> NoRef]}
    \cup {[ok |-> TRUE, ref |-> OriginRef(n)] : n \in RemoteNames}
GhAnswers ==
    {[ok |-> FALSE, branch |-> ""], [ok |-> TRUE, branch |-> ""]}
    \cup {[ok |-> TRUE, branch |-> n] : n \in RemoteNames}
NoGh == [ok |-> FALSE, branch |-> ""]

(* ------------------------------- clone -------------------------------- *)

CloneEnded(in, g, hook, exit, err, main, out) ==
    /\ last' = [Result("clone", "", FALSE, NoPath, exit, err, out)
                EXCEPT !.in = in, !.main = main,
                       !.hooks = IF exit = 0 THEN hook ELSE NoFile]
    /\ SetGit(g)
    /\ rootHook' = hook
    /\ UNCHANGED <<cwd, procs>>

Input(kind, urlOk, gh, cloneOk, sym, listing) ==
    [kind |-> kind, urlOk |-> urlOk, gh |-> gh, cloneOk |-> cloneOk,
     sym |-> sym, listing |-> listing]

NoSym == [ok |-> FALSE, ref |-> NoRef]
NoListing == [ok |-> FALSE, keys |-> <<>>]

\* cloneFinish without the write of <root>/post-hook.json
cloneFinish_NoHookFile(in, g, repoPath, barePath) ==
    LET mainBranch == resolveMainBranch(in.kind, in.gh, in.sym, in.listing)
        mainPath == Join(repoPath, mainBranch)
    IN IF mainBranch = NoBranch
       THEN CloneEnded(in, g, rootHook, 1, "NoBranchFound", NoBranch,
                       <<Ev("mkdir", barePath, TRUE), Ev("clone-bare", barePath, TRUE),
                         Ev("resolve", <<>>, FALSE),
                         Ev("error:clone-failed", <<>>, FALSE)>>)
       ELSE \E okAdd \in Outcomes(CanWorktreeAdd(g, barePath, mainPath, mainBranch)) :
       IF ~okAdd
       THEN CloneEnded(in, g, rootHook, 1, "ExternalToolError", mainBranch,
                       <<Ev("mkdir", barePath, TRUE), Ev("clone-bare", barePath, TRUE),
                         Ev("resolve", <<mainBranch>>, TRUE),
                         Ev("worktree-add", mainPath, FALSE),
                         Ev("error:clone-failed", <<>>, FALSE)>>)
       ELSE CloneEnded(in, WorktreeAdd(g, mainPath, mainBranch), rootHook, 0, "",
                       mainBranch,
                       <<Ev("mkdir", barePath, TRUE), Ev("clone-bare", barePath, TRUE),
                         Ev("resolve", <<mainBranch>>, TRUE),
                         Ev("worktree-add", mainPath, TRUE),
                         Ev("log:cloned", mainPath, TRUE)>>
                       \o runPostHooks(rootHook, NoCodes))

\* the steps from the resolution of the main branch on; g is the repository
\* after the bare clone
cloneFinish(in, g, repoPath, barePath) ==
    LET mainBranch == resolveMainBranch(in.kind, in.gh, in.sym, in.listing)
        mainPath == Join(repoPath, mainBranch)
        emptyHooks == HookFile(<<>>)
    IN IF mainBranch = NoBranch
       THEN CloneEnded(in, g, rootHook, 1, "NoBranchFound", NoBranch,
                       <<Ev("mkdir", barePath, TRUE), Ev("clone-bare", barePath, TRUE),
                         Ev("resolve", <<>>, FALSE),
                         Ev("error:clone-failed", <<>>, FALSE)>>)
       ELSE \E okAdd \in Outcomes(CanWorktreeAdd(g, barePath, mainPath, mainBranch)) :
       IF ~okAdd
       THEN CloneEnded(in, g, rootHook, 1, "ExternalToolError", mainBranch,
                       <<Ev("mkdir", barePath, TRUE), Ev("clone-bare", barePath, TRUE),
                         Ev("resolve", <<mainBranch>>, TRUE),
                         Ev("worktree-add", mainPath, FALSE),
                         Ev("error:clone-failed", <<>>, FALSE)>>)
       ELSE CloneEnded(in, WorktreeAdd(g, mainPath, mainBranch), emptyHooks, 0, "",
                       mainBranch,
                       <<Ev("mkdir", barePath, TRUE), Ev("clone-bare", barePath, TRUE),
                         Ev("resolve", <<mainBranch>>, TRUE),
                         Ev("worktree-add", mainPath, TRUE),
                         Ev("write-hook-file", repoPath, TRUE),
                         Ev("log:cloned", mainPath, TRUE)>>
                       \o runPostHooks(emptyHooks, NoCodes))

\* the answers the resolution asks for, in the order it asks for them: the
\* GitHub default (shorthand only), then symbolic-ref, then `branch -r`
cloneResolve(kind, heads, g, repoPath, barePath, Syms, Ghs) ==
    LET keys == [i \in 1..Len(heads) |-> OriginKey(heads[i])]
    IN \E gh \in IF kind = "short" THEN Ghs ELSE {NoGh} :
        IF kind = "short" /\ getDefaultBranchFromGitHub(gh) # ""
        THEN cloneFinish(Input(kind, TRUE, gh, TRUE, NoSym, NoListing),
                         g, repoPath, barePath)
        ELSE \E sym \in Syms :
               IF sym.ok /\ sym.ref # NoRef
               THEN cloneFinish(Input(kind, TRUE, gh, TRUE, sym, NoListing),
                                g, repoPath, barePath)
               ELSE \E listOk \in BOOLEAN :
                      cloneFinish(Input(kind, TRUE, gh, TRUE, sym,
                                        [ok |-> listOk,
                                         keys |-> IF listOk THEN keys ELSE <<>>]),
                                  g, repoPath, barePath)

\* cloneSteps removing the directories it made when the bare clone fails
cloneSteps_Rollback(kind, Heads, Syms, Ghs) ==
    LET repoPath == Join(cwd, RepoName)
        barePath == Join(repoPath, BareName)
        g1 == [Git EXCEPT !.dirs = @ \cup {repoPath, barePath}]
        made == <<Ev("mkdir", barePath, TRUE)>>
    IN \E okMkdir \in BOOLEAN :
        IF ~okMkdir
        THEN CloneEnded(Input(kind, TRUE, NoGh, FALSE, NoSym, NoListing),
                        Git, rootHook, 1, "ExternalToolError", "",
                        <<Ev("mkdir", barePath, FALSE),
                          Ev("error:clone-failed", <<>>, FALSE)>>)
        ELSE \E cloneOk \in BOOLEAN :
        IF ~cloneOk
        THEN CloneEnded(Input(kind, TRUE, NoGh, FALSE, NoSym, NoListing),
                        Git, rootHook, 1, "ExternalToolError", "",
                        made \o <<Ev("clone-bare", barePath, FALSE),
                                  Ev("error:clone-failed", <<>>, FALSE)>>)
        ELSE \E heads \in Heads :
               cloneResolve(kind, heads,
                            [g1 EXCEPT !.bareOk = TRUE, !.local = Range(heads),
                                       !.remote = Range(heads), !.reg = <<BareEntry>>],
                            repoPath, barePath, Syms, Ghs)

\* the steps after the target-exists check
cloneSteps(kind, Heads, Syms, Ghs) ==
    LET repoPath == Join(cwd, RepoName)
        barePath == Join(repoPath, BareName)
        g1 == [Git EXCEPT !.dirs = @ \cup {repoPath, barePath}]
        made == <<Ev("mkdir", barePath, TRUE)>>
    IN \E okMkdir \in BOOLEAN :
        IF ~okMkdir
        THEN CloneEnded(Input(kind, TRUE, NoGh, FALSE, NoSym, NoListing),
                        Git, rootHook, 1, "ExternalToolError", "",
                        <<Ev("mkdir", barePath, FALSE),
                          Ev("error:clone-failed", <<>>, FALSE)>>)
        ELSE \E cloneOk \in BOOLEAN :
        IF ~cloneOk
        THEN CloneEnded(Input(kind, TRUE, NoGh, FALSE, NoSym, NoListing),
                        g1, rootHook, 1, "ExternalToolError", "",
                        made \o <<Ev("clone-bare", barePath, FALSE),
                                  Ev("error:clone-failed", <<>>, FALSE)>>)
        ELSE \E heads \in Heads :
               cloneResolve(kind, heads,
                            [g1 EXCEPT !.bareOk = TRUE, !.local = Range(heads),
                                       !.remote = Range(heads), !.reg = <<BareEntry>>],
                            repoPath, barePath, Syms, Ghs)

CloneKinds == {"url", "short", "bad"}

cloneWith(Heads, Syms, Ghs) ==
    /\ AtPrompt
    /\ cwd \in dirs
    /\ cwd = TopDir
    /\ \E kind \in CloneKinds :
        IF kind = "bad"
        THEN CloneEnded(Input(kind, FALSE, NoGh, FALSE, NoSym, NoListing),
                        Git, rootHook, 1, "InvalidRepoFormat", "",
                        <<Ev("error:clone-failed", <<>>, FALSE)>>)
        ELSE \E urlOk \in IF kind = "short" THEN BOOLEAN ELSE {TRUE} :
               IF ~urlOk
               THEN CloneEnded(Input(kind, FALSE, NoGh, FALSE, NoSym, NoListing),
                               Git, rootHook, 1, "ExternalToolError", "",
                               <<Ev("lookup", <<>>, FALSE),
                                 Ev("error:clone-failed", <<>>, FALSE)>>)
               ELSE IF directoryExists(dirs, Join(cwd, RepoName))
               THEN CloneEnded(Input(kind, TRUE, NoGh, FALSE, NoSym, NoListing),
                               Git, rootHook, 1, "TargetExists", "",
                               <<Ev("error:TargetExists", Join(cwd, RepoName), FALSE)>>)
               ELSE cloneSteps(kind, Heads, Syms, Ghs)

\* the remotes cloned where the other commands follow: an empty one, one
\* with the branch main, one that reports release before main
FewHeads == {<<>>, <<"main">>, <<"release", "main">>}
FewSyms == {NoSym, [ok |-> TRUE, ref |-> OriginRef("release")]}
FewGhs == {NoGh, [ok |-> TRUE, branch |-> "main"]}

clone == cloneWith(FewHeads, FewSyms, FewGhs)

\* any remote within the bounds
cloneAny == cloneWith(Listings, SymAnswers, GhAnswers)

(* ---------------------- two invocations at once ----------------------- *)

\* two instances of the tool started for the same name against the same bare
\* store; every call of the version-control tool is one atomic step, and the
\* instances interleave between their awaits
Procs == {1, 2}
RaceCmds == {"branch", "add"}

Proc(cmd, name) ==
    [cmd |-> cmd, name |-> name, pc |-> "check", bare |-> NoPath,
     path |-> NoPath, passed |-> FALSE, made |-> FALSE, exit |-> 0]

MainPath == Join(RepoPath, "main")

\* a cloned repository whose worktree main is there or was removed (with or
\* without -D), and where feat was or was not branched and removed before
InitRace ==
    /\ cwd \in {TopDir, RepoPath}
    /\ rootHook = HookFile(<<>>)
    /\ bareOk = TRUE
    /\ remote = {"main"}
    /\ reg \in {<<BareEntry>>, <<BareEntry, Entry(MainPath, "main")>>}
    /\ local \in {l \in SUBSET {"main", "feat"} : Len(reg) = 2 => "main" \in l}
    /\ dirs = {TopDir, RepoPath, BarePath}
                \cup (IF Len(reg) = 2 THEN Checkout(MainPath) ELSE {})
    /\ dirty = {}
    /\ last = Idle
    /\ procs \in {[p \in Procs |-> Proc(c[p], n)] : c \in [Procs -> RaceCmds],
                                                   n \in CmdNames}

\* the instance p moves to the step pc
Goes(p, pc) == procs' = [procs EXCEPT ![p].pc = pc]

\* the catch block, or a precondition that fails: exit 1
Fails(p) == procs' = [procs EXCEPT ![p].pc = "done", ![p].exit = 1]

\* the repository lookup and directoryExists(branchPath)
raceCheck(p) ==
    /\ procs[p].pc = "check"
    /\ LET bare == IF procs[p].cmd = "branch" THEN inlineBarePath(dirs, cwd)
                   ELSE getBarePath(dirs, cwd)
           branchPath == Join(StripBare(bare), procs[p].name)
       IN IF bare = NoPath \/ directoryExists(dirs, branchPath)
          THEN Fails(p)
          ELSE procs' = [procs EXCEPT
                            ![p].pc = IF procs[p].cmd = "branch"
                                      THEN "branch-create" ELSE "list-all",
                            ![p].bare = bare,
                            ![p].path = branchPath,
                            ![p].passed = TRUE]
    /\ UNCHANGED <<cwd, dirs, rootHook, bareOk, local, remote, reg, dirty, last>>

\* branch: bareGit.branch([branchName])
raceBranchCreate(p) ==
    /\ procs[p].pc = "branch-create"
    /\ \E ok \in Outcomes(CanBranchCreate(Git, procs[p].bare, procs[p].name)) :
          IF ok
          THEN SetGit(BranchCreate(Git, procs[p].name)) /\ Goes(p, "worktree-add")
          ELSE SetGit(Git) /\ Fails(p)
    /\ UNCHANGED <<cwd, rootHook, last>>

\* add: bareGit.branch(['-a']) and the BranchNotFound test
raceListAll(p) ==
    /\ procs[p].pc = "list-all"
    /\ \E ok \in Outcomes(IsRepo(Git, procs[p].bare)) :
          IF ok /\ procs[p].name \in local \cup remote
          THEN Goes(p, "list-local")
          ELSE Fails(p)
    /\ UNCHANGED <<cwd, dirs, rootHook, bareOk, local, remote, reg, dirty, last>>

\* add: bareGit.branch(['-l']) and hasLocalBranch
raceListLocal(p) ==
    /\ procs[p].pc = "list-local"
    /\ \E ok \in BOOLEAN :
          IF ~ok THEN Fails(p)
          ELSE IF procs[p].name \in local THEN Goes(p, "worktree-add")
          ELSE Goes(p, "track")
    /\ UNCHANGED <<cwd, dirs, rootHook, bareOk, local, remote, reg, dirty, last>>

\* add: `branch --track <name> origin/<name>`, refused for a name that was
\* taken since the local branches were listed
raceTrack(p) ==
    /\ procs[p].pc = "track"
    /\ \E ok \in Outcomes(/\ CanBranchCreate(Git, procs[p].bare, procs[p].name)
                          /\ procs[p].name \in remote) :
          IF ok
          THEN SetGit(addTracking(Git, procs[p].name).g) /\ Goes(p, "worktree-add")
          ELSE SetGit(Git) /\ Fails(p)
    /\ UNCHANGED <<cwd, rootHook, last>>

\* raceWorktreeAdd calling `worktree add` so that a registered path is taken over
raceWorktreeAdd_Forced(p) ==
    /\ procs[p].pc = "worktree-add"
    /\ \E ok \in Outcomes(IsRepo(Git, procs[p].bare)) :
          IF ok
          THEN /\ SetGit(WorktreeAdd(Git, procs[p].path, procs[p].name))
               /\ procs' = [procs EXCEPT ![p].pc = "hooks", ![p].made = TRUE]
          ELSE SetGit(Git) /\ Fails(p)
    /\ UNCHANGED <<cwd, rootHook, last>>

\* bareGit.raw(['worktree', 'add', branchPath, branchName])
raceWorktreeAdd(p) ==
    /\ procs[p].pc = "worktree-add"
    /\ \E ok \in Outcomes(CanWorktreeAdd(Git, procs[p].bare, procs[p].path,
                                         procs[p].name)) :
          IF ok
          THEN /\ SetGit(WorktreeAdd(Git, procs[p].path, procs[p].name))
               /\ procs' = [procs EXCEPT ![p].pc = "hooks", ![p].made = TRUE]
          ELSE SetGit(Git) /\ Fails(p)
    /\ UNCHANGED <<cwd, rootHook, last>>

\* runPostHooks(branchPath), then the end of the command: exit 0
raceHooks(p) ==
    /\ procs[p].pc = "hooks"
    /\ Goes(p, "done")
    /\ UNCHANGED <<cwd, dirs, rootHook, bareOk, local, remote, reg, dirty, last>>

raceStep(p) ==
    \/ raceCheck(p)
    \/ raceBranchCreate(p)
    \/ raceListAll(p)
    \/ raceListLocal(p)
    \/ raceTrack(p)
    \/ raceWorktreeAdd(p)
    \/ raceHooks(p)

NextRace == \E p \in Procs : raceStep(p)

Next ==
    \/ Prompt
    \/ Chdir
    \/ ExternalDelete
    \/ EditWorktree
    \/ EditHooks
    \/ Switch
    \/ Branch
    \/ Remove
    \/ Add
    \/ listWorktrees
    \/ pruneWorktrees
    \/ syncWorktrees
    \/ clone

Spec == Init /\ [][Next]_vars

\* clone alone, over every remote within the bounds
SpecClone == Init /\ [][cloneAny \/ Prompt]_vars

\* the parsers of list, prune and sync, over synthesized porcelain blocks
SpecParse == InitParse /\ [][ParsePorcelain]_vars

\* two instances of branch or add started for the same name
SpecRace == InitRace /\ [][NextRace]_vars

(* ------------------------------ claims -------------------------------- *)

ReportOps == {"report:skipped", "report:updated", "report:failed"}
LocatorCmds == {"branch", "rm", "add", "list", "prune", "sync", "switch"}

Listed(l) == Has(l.out, "worktree-list", TRUE)

\* the paths the events of `ops` name, in order
PathsIn(out, ops) ==
    LET sel == SelectSeq(out, LAMBDA e : e.op \in ops)
    IN [i \in 1..Len(sel) |-> sel[i].path]

\* C1: in sync, a worktree whose status query reports modified files is
\* never pulled, and the only outcome reported for it is "skipped".
C1_SyncSkipsDirty ==
    last.cmd = "sync" =>
        \A i \in DOMAIN last.out :
            LET e == last.out[i]
            IN (e.path \in dirty /\ Has(last.out, "status", TRUE)
                /\ e.path \in Range(PathsOf(last.out, "status", TRUE)))
               => e.op \notin {"pull", "report:updated", "report:failed"}

C1_Witness ==
    /\ last.cmd = "sync"
    /\ \E p \in dirty :
          /\ p \in Range(PathsOf(last.out, "report:skipped", TRUE))
          /\ \E q \in Range(PathsOf(last.out, "report:failed", FALSE)) : q # p

\* C2: in sync, once the fetch and the listing succeeded, every non-bare
\* worktree of the list gets exactly one outcome, in list order, whatever
\* fails on the worktrees before it.
C2_EveryWorktreeOneOutcome ==
    (last.cmd = "sync" /\ Has(last.out, "fetch", TRUE) /\ Listed(last)) =>
        PathsIn(last.out, ReportOps)
            = [i \in 1..Len(parseNonBare(reg)) |-> parseNonBare(reg)[i].path]

\* C3: in prune, every orphan the listing found gets exactly one removal
\* attempt, in list order; a failed removal is logged and the attempts for
\* the remaining orphans still happen.
C3_PruneAttemptsEveryOrphan ==
    (last.cmd = "prune" /\ Listed(last)) =>
        /\ PathsIn(last.out, {"worktree-remove"}) = PathsOf(last.out, "log:orphan", TRUE)
        /\ PathsOf(last.out, "error:prune-failed", FALSE)
               = PathsOf(last.out, "worktree-remove", FALSE)
        /\ PathsOf(last.out, "log:pruned", TRUE)
               = PathsOf(last.out, "worktree-remove", TRUE)

C3_Witness ==
    /\ last.cmd = "prune"
    /\ Len(PathsOf(last.out, "log:orphan", TRUE)) >= 2
    /\ LET tried == SelectSeq(last.out, LAMBDA e : e.op = "worktree-remove")
       IN ~tried[1].ok /\ tried[2].ok

\* C4 (as claimed): of two prune runs in a row, the first removes the K
\* orphans it reports and the second reports none.
C4_SecondPruneFindsNone ==
    (last.cmd = "prune" /\ Listed(last) /\ last.prev.ran) =>
        /\ last.prev.failed = <<>>
        /\ PathsOf(last.out, "log:orphan", TRUE) = <<>>

\* C4 (amended): of two prune runs in a row, the second finds exactly the
\* orphans whose removal the first reported as failed, and so none when every
\* removal of the first succeeded.
C4_SecondPruneFindsFailed ==
    (last.cmd = "prune" /\ Listed(last) /\ last.prev.ran) =>
        /\ PathsOf(last.out, "log:orphan", TRUE) = last.prev.failed
        /\ Has(last.out, "log:no-orphans", TRUE) <=> last.prev.failed = <<>>

C4_Witness ==
    /\ last.cmd = "prune"
    /\ last.prev.ran
    /\ Len(last.prev.found) >= 2
    /\ last.prev.failed = <<>>
    /\ Has(last.out, "log:no-orphans", TRUE)

\* C5: rm -D whose worktree removal succeeds and whose branch deletion fails
\* leaves the worktree removed, and reports the removal and the failure
\* separately.
C5_RemoveIndependence ==
    (last.cmd = "rm" /\ last.del /\ Has(last.out, "worktree-remove", TRUE)
     /\ Has(last.out, "branch-delete", FALSE)) =>
        LET p == PathsOf(last.out, "worktree-remove", TRUE)[1]
        IN /\ p \notin dirs
           /\ ~Registered(Git, p)
           /\ PathsIn(last.out, {"log:removed-worktree", "error:remove-failed"})
                  = <<p, <<last.name>>>>
           /\ last.exit = 1

C5_Witness ==
    /\ last.cmd = "rm"
    /\ last.del
    /\ Has(last.out, "worktree-remove", TRUE)
    /\ Has(last.out, "branch-delete", FALSE)

\* C6: the bare store is looked for in the cwd and then one level up, the
\* cwd's own first; a store two or more levels up is not found, and the
\* command then ends with NotManagedRepository, exit 1, nothing changed.
C6_LocatorOneLevel ==
    [][last'.cmd \in LocatorCmds =>
          LET own == Join(cwd, BareName)
              par == Join(Parent(cwd), BareName)
              above == \E k \in 2..Len(cwd) :
                          Join(SubSeq(cwd, 1, Len(cwd) - k), BareName) \in dirs
          IN /\ own \in dirs => last'.bare = own
             /\ (own \notin dirs /\ par \in dirs) => last'.bare = par
             /\ (own \notin dirs /\ par \notin dirs /\ above) =>
                    /\ last'.err = "NotManagedRepository"
                    /\ last'.exit = 1
                    /\ UNCHANGED <<cwd, dirs, rootHook, bareOk, local, remote, reg, dirty>>
      ]_vars

C6_Witness ==
    /\ last.cmd \in LocatorCmds
    /\ last.cwd = <<RepoName, "main", SubName>>
    /\ BarePath \in dirs
    /\ last.err = "NotManagedRepository"

\* C7: a command that ends with a precondition error exits 1 and leaves the
\* directories, the branches, the registrations and the hook file as they were.
C7_PreconditionBeforeMutation ==
    [][last'.err \in PreconditionErrors =>
          /\ last'.exit = 1
          /\ UNCHANGED <<cwd, dirs, rootHook, bareOk, local, remote, reg, dirty>>
      ]_vars

C7_Witness ==
    /\ last.cmd = "add"
    /\ last.err = "BranchNotFound"
    /\ last.name \notin local

\* C8: once every step of clone, branch or add before the hooks succeeded,
\* the command exits 0 and the worktree, the branch and the hook file it
\* created stay, whatever the hooks exit with and whatever the hook file reads as.
C8_HookFailureNotFatal ==
    (last.cmd \in {"clone", "branch", "add"}
     /\ (Has(last.out, "log:created", TRUE) \/ Has(last.out, "log:cloned", TRUE))) =>
        LET p == PathsIn(last.out, {"log:created", "log:cloned"})[1]
        IN /\ last.exit = 0
           /\ p \in dirs
           /\ Registered(Git, p)
           /\ p[Len(p)] \in local
           /\ last.cmd = "clone" => rootHook = HookFile(<<>>)

C8_Witness ==
    /\ last.cmd = "branch"
    /\ Has(last.out, "hook", FALSE)
    /\ Has(last.out, "error:post-hook", FALSE)
    /\ last.exit = 0

\* the hooks a run of the list hs starts: all of them, or those up to the
\* first that fails
IsRunOf(started, hs) ==
    /\ Len(started) <= Len(hs)
    /\ \A i \in 1..Len(started) : started[i].path = hs[i]
    /\ \A i \in 1..Len(started) : ~started[i].ok => i = Len(started)
    /\ Len(started) < Len(hs) => (Len(started) > 0 /\ ~started[Len(started)].ok)

\* C9: after a successful branch or add, the hooks that ran are those of
\* <root>/post-hook.json.
C9_RootHooksRun ==
    (last.cmd \in {"branch", "add"} /\ last.exit = 0 /\ rootHook.kind = "hooks") =>
        IsRunOf(SelectSeq(last.out, LAMBDA e : e.op = "hook"), rootHook.hooks)

\* C10: the main branch of clone is the supplied default branch, else the
\* target of the symbolic reference, else the earliest name of the
\* preference list among the remote branches, else the first remote branch;
\* the resolution fails only when there is no remote branch.
C10_BranchPrecedence ==
    (last.cmd = "clone" /\ (Has(last.out, "resolve", TRUE) \/ Has(last.out, "resolve", FALSE))) =>
        LET in == last.in
            names == [i \in 1..Len(in.listing.keys) |-> in.listing.keys[i][2]]
            hits == {i \in 1..Len(commonDefaults) : commonDefaults[i] \in Range(names)}
            first == CHOOSE i \in hits : \A j \in hits : i <= j
        IN IF in.kind = "short" /\ in.gh.ok /\ in.gh.branch # ""
           THEN last.main = in.gh.branch
           ELSE IF in.sym.ok /\ in.sym.ref # NoRef
           THEN last.main = in.sym.ref[4]
           ELSE in.listing.ok =>
                  IF hits # {} THEN last.main = commonDefaults[first]
                  ELSE IF Len(names) > 0 THEN last.main = names[1]
                  ELSE last.main = NoBranch

\* the operations of an output, in order
OpsOf(out) == [i \in 1..Len(out) |-> out[i].op]

\* C11: a clone whose every step succeeds leaves under <root> the bare store,
\* one worktree, registered for the resolved main branch at <root>/<branch>,
\* and a post-hook.json with an empty hooks list, and nothing else; its steps
\* are, in order: bare store, branch resolution, worktree, hook file, hooks.
C11_CloneArtifacts ==
    (last.cmd = "clone" /\ last.exit = 0) =>
        LET root == Join(last.cwd, RepoName)
            mainPath == Join(root, last.main)
        IN /\ {d \in dirs : IsPrefix(root, d)}
                  = {root, Join(root, BareName)} \cup Checkout(mainPath)
           /\ reg = <<[worktree |-> Join(root, BareName), ref |-> <<>>, bare |-> TRUE],
                      [worktree |-> mainPath, ref |-> <<"refs", "heads", last.main>>,
                       bare |-> FALSE]>>
           /\ last.main \in local
           /\ rootHook = [kind |-> "hooks", hooks |-> <<>>]
           /\ OpsOf(last.out) = <<"mkdir", "clone-bare", "resolve", "worktree-add",
                                  "write-hook-file", "log:cloned">>
           /\ \A i \in DOMAIN last.out : last.out[i].ok

C11_Witness ==
    /\ last.cmd = "clone"
    /\ last.exit = 0
    /\ last.main = "main"
    /\ <<RepoName, "main">> \in dirs
    /\ rootHook = [kind |-> "hooks", hooks |-> <<>>]

\* C12: switch(name) changes no directory, branch or registration; in a
\* managed repository it prints the path <root>/<name>, and nothing else,
\* exactly when that directory exists, and otherwise ends with
\* WorktreeNotFound, exit 1, nothing printed.
C12_SwitchPureQuery ==
    [][last'.cmd = "switch" =>
          /\ UNCHANGED <<cwd, dirs, rootHook, bareOk, local, remote, reg, dirty>>
          /\ last'.bare # NoPath =>
                LET path == Join(Parent(last'.bare), last'.name)
                IN IF path \in dirs
                   THEN /\ last'.exit = 0
                        /\ last'.out = <<Ev("print", path, TRUE)>>
                   ELSE /\ last'.exit = 1
                        /\ last'.err = "WorktreeNotFound"
                        /\ \A i \in DOMAIN last'.out : last'.out[i].op # "print"
      ]_vars

C12_Witness ==
    /\ last.cmd = "switch"
    /\ last.out = <<Ev("print", <<RepoName, "feat">>, TRUE)>>
    /\ last.cwd = <<RepoName, "main">>

\* the value each command's parser gives an entry without a branch line
DetachedSentinel(cmd) == IF cmd = "list" THEN "(detached)" ELSE ""

\* C13: from a porcelain block, the loop of each of list, prune and sync gets
\* one record per entry that has a worktree line and no bare line, in input
\* order; `branch refs/heads/foo` gives branch foo and a missing branch line
\* gives the detached sentinel.
C13_ParsedRecords ==
    last.cmd = "parse" =>
        LET keep == {i \in DOMAIN reg : reg[i].worktree # NoPath /\ ~reg[i].bare}
            recs == last.recs
        IN /\ Len(recs) = Cardinality(keep)
           /\ \E f \in [1..Len(recs) -> keep] :
                 /\ \A j, k \in 1..Len(recs) : j < k => f[j] < f[k]
                 /\ \A k \in 1..Len(recs) :
                       /\ recs[k].path = reg[f[k]].worktree
                       /\ recs[k].branch = IF reg[f[k]].ref = <<>>
                                           THEN DetachedSentinel(last.name)
                                           ELSE reg[f[k]].ref[3]

C13_Witness ==
    /\ last.cmd = "parse"
    /\ last.name = "sync"
    /\ Len(reg) = 3
    /\ reg[2].bare /\ reg[2].worktree # NoPath
    /\ last.recs = <<[path |-> <<RepoName, "bar">>, branch |-> ""],
                     [path |-> <<RepoName, "foo">>, branch |-> "foo"]>>

\* the calls to the version-control tool
VcsOps ==
    {"clone-bare", "resolve", "worktree-add", "branch-create", "branch-track",
     "branch-list-all", "branch-list-local", "worktree-remove", "branch-delete"}

\* C14: clone, branch, add and rm exit 1 whenever one of their version-control
\* calls fails, and so exit 0 only when all succeed; prune and sync exit 0
\* once the repository lookup, the fetch and the listing succeeded, however
\* many removals or pulls fail.
C14_ExitCodes ==
    /\ last.cmd \in {"clone", "branch", "add", "rm"} =>
          ((\E i \in DOMAIN last.out : last.out[i].op \in VcsOps /\ ~last.out[i].ok)
              => last.exit = 1)
    /\ (last.cmd = "prune" /\ Listed(last)) => last.exit = 0
    /\ (last.cmd = "sync" /\ Has(last.out, "fetch", TRUE) /\ Listed(last))
          => last.exit = 0

\* C15: in clone with owner/repo shorthand, when the lookup of the default
\* branch fails or answers nothing, the main branch is the one the fallback
\* (symbolic reference, preference list, first remote branch) gives, and the
\* clone goes on to add the worktree.
C15_LookupFailureNotFatal ==
    (last.cmd = "clone" /\ last.in.kind = "short" /\ last.in.cloneOk
     /\ (~last.in.gh.ok \/ last.in.gh.branch = "")) =>
        /\ last.main = getMainBranch(last.in.sym, last.in.listing)
        /\ last.main # NoBranch =>
              /\ Has(last.out, "resolve", TRUE)
              /\ Has(last.out, "worktree-add", TRUE) \/ Has(last.out, "worktree-add", FALSE)
              /\ Has(last.out, "worktree-add", TRUE) => last.exit = 0
        /\ last.main = NoBranch => last.err = "NoBranchFound"

C15_Witness ==
    /\ last.cmd = "clone"
    /\ last.in.kind = "short"
    /\ ~last.in.gh.ok
    /\ ~last.in.sym.ok
    /\ last.in.listing.ok
    /\ last.main = "develop"
    /\ last.exit = 0

\* the places of the events op in an output
PlacesOf(out, op) == {i \in DOMAIN out : out[i].op = op}

C17_FetchOnceFirst ==
    (last.cmd = "sync" /\ last.bare # NoPath) =>
        /\ Cardinality(PlacesOf(last.out, "fetch")) = 1
        /\ last.out[1].op = "fetch"
        /\ (Has(last.out, "fetch", FALSE) \/ Has(last.out, "worktree-list", FALSE)) =>
              /\ PlacesOf(last.out, "status") = {}
              /\ PlacesOf(last.out, "pull") = {}
              /\ last.exit = 1

C17_Witness ==
    /\ last.cmd = "sync"
    /\ Has(last.out, "fetch", TRUE)
    /\ Cardinality(PlacesOf(last.out, "pull")) >= 2

\* C18: prune attempts a removal only for a non-bare registration whose
\* directory is missing when the worktrees are listed; every registration
\* whose directory exists, and the bare-store record, is still registered
\* after it; no event of list, sync or prune names the bare-store record.
C18_PruneOnlyOrphans ==
    [][/\ last'.cmd = "prune" =>
            /\ \A i \in DOMAIN reg :
                  (reg[i].bare \/ reg[i].worktree \in dirs) =>
                      \E j \in DOMAIN reg' : reg'[j] = reg[i]
            /\ \A k \in PlacesOf(last'.out, "worktree-remove") :
                  \E i \in DOMAIN reg :
                      /\ ~reg[i].bare
                      /\ reg[i].worktree = last'.out[k].path
                      /\ reg[i].worktree \notin dirs
            /\ dirs' = dirs
       /\ last'.cmd \in ParseCmds =>
            \A k \in DOMAIN last'.out : \A i \in DOMAIN reg :
                reg[i].bare => last'.out[k].path # reg[i].worktree
      ]_vars

C18_Witness ==
    /\ last.cmd = "prune"
    /\ Has(last.out, "log:pruned", TRUE)
    /\ \E i \in DOMAIN reg : ~reg[i].bare /\ reg[i].worktree \in dirs
    /\ \E i \in DOMAIN reg : reg[i].bare

\* C20: once the worktree-list call succeeded, list prints one entry for every
\* non-bare record, in listing order, a record whose directory is gone with
\* the orphan marker, and exits 0 whatever the per-record queries do.
C20_ListEveryRecord ==
    (last.cmd = "list" /\ Listed(last)) =>
        /\ PathsOf(last.out, "print:entry", TRUE)
              = [i \in 1..Len(parseNonBare(reg)) |-> parseNonBare(reg)[i].path]
        /\ \A i \in 1..Len(parseNonBare(reg)) :
              parseNonBare(reg)[i].path \notin dirs
                  => Has(last.out, "show:orphan", TRUE)
        /\ last.exit = 0

\* C19: the hooks started are those of the list that was read, in list
\* order, up to and including the first that exits non-zero; no hook after
\* that one is started, and the failure is reported right after it.
C19_HooksInOrderUntilFailure ==
    (last.cmd \in {"clone", "branch", "add"} /\ last.hooks.kind = "hooks") =>
        /\ IsRunOf(SelectSeq(last.out, LAMBDA e : e.op = "hook"), last.hooks.hooks)
        /\ \A i \in DOMAIN last.out :
              (last.out[i].op = "hook" /\ ~last.out[i].ok) =>
                  /\ i < Len(last.out)
                  /\ last.out[i + 1] = Ev("error:post-hook", last.out[i].path, FALSE)

C19_Witness ==
    /\ last.cmd = "branch"
    /\ last.hooks = HookFile(<<HookName(1), HookName(2)>>)
    /\ SelectSeq(last.out, LAMBDA e : e.op = "hook") = <<Ev("hook", HookName(1), FALSE)>>

\* the events of a hook run: a hook started, or the hooks file refused
HookOps == {"hook", "error:post-hook"}

\* C21: branch calls `git branch`, then `git worktree add`, then the hooks,
\* each at most once and in that order. When the branch creation fails the
\* command exits 1, the worktree is not attempted, nothing is registered or
\* created on disk and no hook runs; when the worktree creation fails the
\* command exits 1 and no hook runs; a hook runs only after both succeeded.
C21_BranchStepOrder ==
    [][last'.cmd = "branch" =>
          /\ Cardinality(PlacesOf(last'.out, "branch-create")) <= 1
          /\ Cardinality(PlacesOf(last'.out, "worktree-add")) <= 1
          /\ \A i \in PlacesOf(last'.out, "branch-create") :
                \A j \in PlacesOf(last'.out, "worktree-add") : i < j
          /\ \A j \in PlacesOf(last'.out, "worktree-add") :
                /\ Has(last'.out, "branch-create", TRUE)
                /\ \A k \in DOMAIN last'.out : last'.out[k].op \in HookOps => j < k
          /\ Has(last'.out, "branch-create", FALSE) =>
                /\ last'.exit = 1
                /\ PlacesOf(last'.out, "worktree-add") = {}
                /\ reg' = reg /\ dirs' = dirs /\ local' = local
                /\ \A k \in DOMAIN last'.out : last'.out[k].op \notin HookOps
          /\ Has(last'.out, "worktree-add", FALSE) =>
                /\ last'.exit = 1
                /\ reg' = reg /\ dirs' = dirs
                /\ \A k \in DOMAIN last'.out : last'.out[k].op \notin HookOps
          /\ (\E k \in DOMAIN last'.out : last'.out[k].op \in HookOps) =>
                /\ Has(last'.out, "branch-create", TRUE)
                /\ Has(last'.out, "worktree-add", TRUE)
      ]_vars

\* the name was taken: `git branch` refused it before any worktree call
C21_Witness ==
    /\ last.cmd = "branch"
    /\ last.name \in local
    /\ last.out = <<Ev("branch-create", <<last.name>>, FALSE),
                    Ev("error:branch-failed", <<last.name>>, FALSE)>>
    /\ ~Registered(Git, Join(RepoPath, last.name))

\* C22: rm calls `git branch -D` only when deleteBranch is set, and only
\* after `git worktree remove` succeeded. Without the flag the local branches
\* are the same after rm; when the worktree removal fails the branches and
\* the registrations are the same after rm; rm deletes no other branch than
\* the one it was given.
C22_BranchDeletionGuarded ==
    [][last'.cmd = "rm" =>
          /\ \A j \in PlacesOf(last'.out, "branch-delete") :
                /\ last'.del
                /\ \E i \in PlacesOf(last'.out, "worktree-remove") :
                      i < j /\ last'.out[i].ok
          /\ ~last'.del => local' = local
          /\ ~Has(last'.out, "worktree-remove", TRUE) =>
                /\ local' = local
                /\ reg' = reg
                /\ PlacesOf(last'.out, "branch-delete") = {}
          /\ local' \subseteq local
          /\ local \ local' \subseteq {last'.name}
      ]_vars

\* rm -D of a worktree with changes: the removal is refused, the branch stays
C22_Witness ==
    /\ last.cmd = "rm"
    /\ last.del
    /\ Has(last.out, "worktree-remove", FALSE)
    /\ last.name \in local
    /\ Registered(Git, Join(RepoPath, last.name))
    /\ Join(RepoPath, last.name) \in dirty

\* C23: clone removes no directory. When it fails after `mkdir -p
\* <root>/.bare` succeeded (in the bare clone, in the resolution of the main
\* branch or in the worktree creation) it exits 1, <root> and <root>/.bare
\* are still on disk, and <root>/post-hook.json was not written. A clone
\* whose input resolves to the repository while <root> is on disk ends with
\* TargetExists, exit 1, and changes nothing.
C23_CloneNoRollback ==
    [][last'.cmd = "clone" =>
          /\ dirs \subseteq dirs'
          /\ (last'.exit = 1 /\ Has(last'.out, "mkdir", TRUE)) =>
                /\ Join(cwd, RepoName) \in dirs'
                /\ Join(Join(cwd, RepoName), BareName) \in dirs'
                /\ PlacesOf(last'.out, "write-hook-file") = {}
                /\ rootHook' = NoFile
          /\ (last'.in.urlOk /\ Join(cwd, RepoName) \in dirs) =>
                /\ last'.err = "TargetExists"
                /\ last'.exit = 1
                /\ UNCHANGED <<dirs, rootHook, bareOk, local, remote, reg, dirty>>
      ]_vars

\* a clone refused because of what a failed bare clone left behind
C23_Witness ==
    /\ last.cmd = "clone"
    /\ last.err = "TargetExists"
    /\ BarePath \in dirs
    /\ ~bareOk
    /\ rootHook = NoFile

\* a registration whose directory is gone
Orphaned(g, path) == Registered(g, path) /\ path \notin g.dirs

\* C25: rm of a worktree that is registered but whose directory is gone ends
\* with WorktreeNotFound, exit 1, with or without -D, calls nothing and
\* leaves the registrations and the branches as they were. No command other
\* than prune takes the registration of an orphan away.
C25_OrphanOnlyPruned ==
    [][/\ (/\ last'.cmd = "rm"
           /\ last'.bare # NoPath
           /\ Orphaned(Git, Join(StripBare(last'.bare), last'.name))) =>
              /\ last'.err = "WorktreeNotFound"
              /\ last'.exit = 1
              /\ Range(OpsOf(last'.out)) \cap VcsOps = {}
              /\ reg' = reg
              /\ local' = local
       /\ \A i \in DOMAIN reg :
              (/\ Orphaned(Git, reg[i].worktree)
               /\ \A j \in DOMAIN reg' : reg'[j].worktree # reg[i].worktree) =>
                  last'.cmd = "prune"
      ]_vars

\* rm -D refused for an orphan whose branch and registration are still there
C25_Witness ==
    /\ last.cmd = "rm"
    /\ last.del
    /\ last.err = "WorktreeNotFound"
    /\ Orphaned(Git, Join(RepoPath, last.name))
    /\ last.name \in local

\* C24: two instances of branch or add run for the same name against the
\* same bare store, each call of the version-control tool being atomic: no
\* two records of the registry have the same path, at most one instance
\* creates the worktree, and an instance that ends without having created it
\* exits 1 (the one that created it exits 0), also when both passed the
\* path-exists test.
C24_AtMostOneCreates ==
    /\ \A i, j \in DOMAIN reg : i # j => reg[i].worktree # reg[j].worktree
    /\ \A p, q \in DOMAIN procs :
          (p # q /\ procs[p].made) => ~procs[q].made
    /\ \A p \in DOMAIN procs :
          procs[p].pc = "done" => (procs[p].exit = 0 <=> procs[p].made)

\* both instances of the same command passed the path test; one made the
\* worktree, the other ended in its catch block
C24_Witness ==
    /\ procs # NoProcs
    /\ procs[1].cmd = procs[2].cmd
    /\ procs[1].passed /\ procs[2].passed
    /\ procs[1].pc = "done" /\ procs[2].pc = "done"
    /\ procs[1].made /\ procs[1].exit = 0
    /\ ~procs[2].made /\ procs[2].exit = 1
    /\ Cardinality({i \in DOMAIN reg : reg[i].worktree = procs[1].path}) = 1

====
